---------------------------- MODULE Spec2Model ----------------------------
(*
  Model of src/string_align.py: the lazily loaded penalty table
  (_penalty_scores, _load_scores, _penalty) and the Needleman-Wunsch
  alignment (align), which carries the partial alignment strings of two
  matrix rows.

  Numbers.  Python floats are modelled as integers counting thousandths
  (1.004 is 1004), so sums and comparisons are exact; round(x, 2) is Round2.
  Indices.  i and j hold the values of the Python loop variables (0-based);
  Python's seq[k] is seq[k + 1] here.
  Two specifications share the module:
    Spec      the alignment engine, started with a completely loaded table;
    SpecLoad  the life of the penalty table over a sequence of _penalty calls.
*)
EXTENDS Integers, Sequences, FiniteSets, TLC

VARIABLES
    weights_file,     \* content of the file named by _weights_file
    penalty_scores,   \* the module-level dict _penalty_scores
    presult,          \* outcome of the last _penalty call made by a caller
    pc,               \* position inside / outcome of the current align call
    lstr1, lstr2,     \* arguments of align
    i, j,             \* loop variables of align
    lastrow_scores, lastrow_strings,
    row_scores, row_strings,
    match_score, ins_score, del_score, score,
    op,               \* branch of lines 91-99 taken for the last cell
    result            \* what the align call gave back

vars == << weights_file, penalty_scores, presult, pc, lstr1, lstr2, i, j,
           lastrow_scores, lastrow_strings, row_scores, row_strings,
           match_score, ins_score, del_score, score, op, result >>

alignVars == << pc, lstr1, lstr2, i, j, lastrow_scores, lastrow_strings,
                row_scores, row_strings, match_score, ins_score, del_score,
                score, op, result >>

-----------------------------------------------------------------------------
(* Bounds *)

\* longest input sequence given to align
MaxLen == 2
\* most feature weights on the weights line
MaxWeights == 3
\* most feature columns on a line of the table
MaxFeat == 2
\* most table lines after the weights line
MaxRows == 2

Symbols == {"a", "b"}

\* penalties of symbol pairs in a loaded table, in thousandths
PenValues == {0, 2008, 3000}
\* gap penalties in a loaded table, in thousandths
GapValues == {1000, 1004}

-----------------------------------------------------------------------------
(* Helpers *)

EmptyDict == [k \in {} |-> 0]

\* the key '-' of the gap penalty; pair keys are 2-tuples
GapKey == << "-" >>

PairKeys == Symbols \X Symbols

Put(d, k, v) == [x \in (DOMAIN d) \cup {k} |-> IF x = k THEN v ELSE d[x]]

Prefix(s, n) == SubSeq(s, 1, n)

Gaps(n) == [k \in 1..n |-> "-"]

SeqsUpTo(S, n) == UNION {[1..m -> S] : m \in 0..n}

\* a local name that no assignment has bound yet (rows are never empty)
Unbound == << >>


-----------------------------------------------------------------------------
(* The weights file and _load_scores *)

\* float(token), in thousandths; a token outside the domain raises ValueError
FloatOf == ("1.0" :> 1000) @@ ("2.5" :> 2500)

\* int(token); a token outside the domain raises ValueError
IntOf == ("0" :> 0) @@ ("1" :> 1)

WeightTokens == {"1.0", "2.5", "x"}
FeatTokens == {"0", "1", "x"}

\* line.split() of the table lines: the empty line, a line of one field, and
\* lines  A B ignored f1 .. fn
RowLines ==
    {<< >>, <<"a">>, <<"GAP">>}
    \cup {<<x, y, "n">> \o f : x \in {"a", "GAP"}, y \in {"b", "GAP"},
                              f \in SeqsUpTo(FeatTokens, MaxFeat)}

\* the file after its header line: the split weights line and the table lines
Files == [weights : SeqsUpTo(WeightTokens, MaxWeights),
          rows : SeqsUpTo(RowLines, MaxRows)]

\* the file of a process whose table is loaded: it is not read again
ConsumedFile == [weights |-> << >>, rows |-> << >>]

\* s[n:]
Drop(s, n) == [k \in 1..(Len(s) - n) |-> s[k + n]]

MinOf(a, b) == IF a <= b THEN a ELSE b

RECURSIVE ZipSum(_, _, _)
\* sum([x * y for x, y in zip(feature_match, feature_weights)]), first n terms
ZipSum(feature_match, feature_weights, n) ==
    IF n = 0 THEN 0
    ELSE ZipSum(feature_match, feature_weights, n - 1)
         + feature_match[n] * feature_weights[n]

\* the mismatch score of line 34: zip stops at the shorter list
MismatchScore(feature_match, feature_weights) ==
    ZipSum(feature_match, feature_weights,
           MinOf(Len(feature_match), Len(feature_weights)))

Raised(d, e) == [ok |-> FALSE, error |-> e, table |-> d]

RECURSIVE LoadRows(_, _, _, _)
\* the loop of lines 24-34 from table line k on, d being the dict so far
LoadRows(d, feature_weights, rows, k) ==
    IF k > Len(rows) THEN [ok |-> TRUE, error |-> "none", table |-> d]
    ELSE LET line == rows[k] IN
         IF Len(line) = 0 THEN Raised(d, "IndexError")
         ELSE IF line[1] = "GAP" THEN LoadRows(d, feature_weights, rows, k + 1)
         ELSE IF Len(line) < 2 THEN Raised(d, "IndexError")
         ELSE IF line[2] = "GAP" THEN LoadRows(d, feature_weights, rows, k + 1)
         ELSE LET fields == Drop(line, 3) IN
              IF \E n \in 1..Len(fields) : fields[n] \notin DOMAIN IntOf
              THEN Raised(d, "ValueError")
              ELSE LET feature_match == [n \in 1..Len(fields) |-> IntOf[fields[n]]]
                   IN  LoadRows(Put(d, <<line[1], line[2]>>,
                                    MismatchScore(feature_match, feature_weights)),
                                feature_weights, rows, k + 1)

\* _load_scores() writing into dict d: the dict it leaves and how it ended
LoadScores(d, file) ==
    IF \E n \in 1..Len(file.weights) : file.weights[n] \notin DOMAIN FloatOf
    THEN Raised(d, "ValueError")
    ELSE IF Len(file.weights) = 0 THEN Raised(d, "IndexError")
    ELSE LET feature_weights ==
                 [n \in 1..Len(file.weights) |-> FloatOf[file.weights[n]]]
         IN  LoadRows(Put(d, GapKey, feature_weights[1]),
                      feature_weights, file.rows, 1)

-----------------------------------------------------------------------------
(* _penalty *)

\* Lookup with the slip of answering a missing pair from the reversed pair
LookupSymmetric(d, key) ==
    IF key \in DOMAIN d THEN [found |-> TRUE, value |-> d[key]]
    ELSE IF Len(key) = 2 /\ <<key[2], key[1]>> \in DOMAIN d
    THEN [found |-> TRUE, value |-> d[<<key[2], key[1]>>]]
    ELSE [found |-> FALSE, value |-> 0]

\* lines 50-54 on dict d: the stored score, or the KeyError that ends in exit(1)
Lookup(d, key) ==
    IF key \in DOMAIN d THEN [found |-> TRUE, value |-> d[key]]
    ELSE [found |-> FALSE, value |-> 0]

NoCall == [kind |-> "none", key |-> << >>, value |-> 0]

\* _penalty(key) with dict d and the weights file: the dict it leaves and
\* how the call ends ("value", "exit" for exit(1), or the exception raised
\* by _load_scores)
Penalty(d, file, key) ==
    LET ld == IF DOMAIN d = {} THEN LoadScores(d, file)
              ELSE [ok |-> TRUE, error |-> "none", table |-> d]
        lk == Lookup(ld.table, key)
    IN  [table |-> ld.table,
         kind |-> IF ~ld.ok THEN ld.error
                  ELSE IF lk.found THEN "value" ELSE "exit",
         value |-> IF ld.ok THEN lk.value ELSE 0]

\* the keys callers ask _penalty for
CallKeys == {GapKey, <<"a", "b">>, <<"b", "a">>}

\* one call _penalty(key) by a caller that catches exceptions
PenaltyCall(key) ==
    /\ pc = "idle"
    /\ presult.kind # "exit"
    /\ LET p == Penalty(penalty_scores, weights_file, key)
       IN  /\ penalty_scores' = p.table
           /\ presult' = [kind |-> p.kind, key |-> key, value |-> p.value]
    /\ UNCHANGED << weights_file, alignVars >>

-----------------------------------------------------------------------------
(* align *)

NoResult == [kind |-> "none", key |-> << >>, strings |-> << << >>, << >> >>,
             score |-> 0]

\* round(x, 2) for x >= 0 in thousandths: the closest multiple of ten, the
\* even one of two equally close
Round2(x) ==
    LET r == x % 10
        down == x - r
    IN  IF r < 5 THEN down
        ELSE IF r > 5 THEN down + 10
        ELSE IF (down \div 10) % 2 = 0 THEN down ELSE down + 10

\* BestScore with the slip of leaving del_score out of the minimum
BestScoreNoDel(m, n, d) == MinOf(m, n)

\* min(match_score, ins_score, del_score), line 87
BestScore(m, n, d) == MinOf(m, MinOf(n, d))

\* ChosenOp with the slip of testing the insertion before the match
ChosenOpInsertFirst(s, m, n, d) ==
    IF s = n THEN "Insert" ELSE IF s = m THEN "Match" ELSE "Delete"

\* the branch of lines 91-99 taken for the best score s
ChosenOp(s, m, n, d) ==
    IF s = m THEN "Match" ELSE IF s = n THEN "Insert" ELSE "Delete"

\* the pair looked up at line 83
CellKey == <<lstr1[i + 1], lstr2[j + 1]>>

\* line 83, line 84, line 85 (the dict is loaded once line 72 has returned)
MatchScore == lastrow_scores[i + 1] + Lookup(penalty_scores, CellKey).value
InsScore == lastrow_scores[i + 2] + Lookup(penalty_scores, GapKey).value
DelScore == row_scores[i + 1] + Lookup(penalty_scores, GapKey).value

\* line 93
MatchStrings ==
    << lastrow_strings[i + 1][1] \o <<lstr1[i + 1]>>,
       lastrow_strings[i + 1][2] \o <<lstr2[j + 1]>> >>

\* line 96
InsertStrings ==
    << lastrow_strings[i + 2][1] \o <<"-">>,
       lastrow_strings[i + 1][2] \o <<lstr2[j + 1]>> >>

\* DeleteStrings with the slip of padding string 1 as the insertion does
DeleteStringsGap ==
    << row_strings[i + 1][1] \o <<"-">>,
       row_strings[i + 1][2] \o <<"-">> >>

\* line 99
DeleteStrings ==
    << row_strings[i + 1][1] \o <<lstr1[i + 1]>>,
       row_strings[i + 1][2] \o <<"-">> >>

\* lines 68-73: a call align(s1, s2); the first _penalty('-') may load the dict
Align(s1, s2) ==
    /\ pc = "idle"
    /\ presult.kind # "exit"
    /\ LET p == Penalty(penalty_scores, weights_file, GapKey)
       IN  /\ penalty_scores' = p.table
           /\ lstr1' = s1
           /\ lstr2' = s2
           /\ i' = 0
           /\ j' = 0
           /\ row_scores' = Unbound
           /\ row_strings' = Unbound
           /\ match_score' = 0
           /\ ins_score' = 0
           /\ del_score' = 0
           /\ score' = 0
           /\ op' = "none"
           /\ IF p.kind = "value"
              THEN /\ lastrow_scores' = [k \in 1..(Len(s1) + 1) |-> p.value * (k - 1)]
                   /\ lastrow_strings' =
                          [k \in 1..(Len(s1) + 1) |-> <<Prefix(s1, k - 1), Gaps(k - 1)>>]
                   /\ pc' = "row"
                   /\ result' = NoResult
              ELSE /\ lastrow_scores' = Unbound
                   /\ lastrow_strings' = Unbound
                   /\ pc' = IF p.kind = "exit" THEN "exited" ELSE "raised"
                   /\ result' = [NoResult EXCEPT !.kind = p.kind, !.key = GapKey]
    /\ UNCHANGED << weights_file, presult >>

\* lines 76-79: the next row starts with the all-insertions element
RowBegin ==
    /\ pc = "row"
    /\ j < Len(lstr2)
    /\ row_scores' = << Lookup(penalty_scores, GapKey).value * (j + 1) >>
    /\ row_strings' = << <<Gaps(j + 1), Prefix(lstr2, j + 1)>> >>
    /\ i' = 0
    /\ pc' = "cell"
    /\ UNCHANGED << weights_file, penalty_scores, presult, lstr1, lstr2, j,
                    lastrow_scores, lastrow_strings, match_score, ins_score,
                    del_score, score, op, result >>

\* lines 83-88 and the branch b of lines 91-99 with its strings
Cell(b, strings) ==
    /\ pc = "cell"
    /\ i < Len(lstr1)
    /\ Lookup(penalty_scores, CellKey).found
    /\ ChosenOp(BestScore(MatchScore, InsScore, DelScore),
                MatchScore, InsScore, DelScore) = b
    /\ match_score' = MatchScore
    /\ ins_score' = InsScore
    /\ del_score' = DelScore
    /\ score' = BestScore(MatchScore, InsScore, DelScore)
    /\ row_scores' = Append(row_scores, score')
    /\ row_strings' = Append(row_strings, strings)
    /\ op' = b
    /\ i' = i + 1
    /\ UNCHANGED << weights_file, penalty_scores, presult, pc, lstr1, lstr2, j,
                    lastrow_scores, lastrow_strings, result >>

CellMatch == Cell("Match", MatchStrings)

CellInsert == Cell("Insert", InsertStrings)

CellDelete == Cell("Delete", DeleteStrings)

\* lines 83, 52-54: no score for the pair; the message names it, exit(1)
CellMissing ==
    /\ pc = "cell"
    /\ i < Len(lstr1)
    /\ ~Lookup(penalty_scores, CellKey).found
    /\ pc' = "exited"
    /\ result' = [NoResult EXCEPT !.kind = "exit", !.key = CellKey]
    /\ UNCHANGED << weights_file, penalty_scores, presult, lstr1, lstr2, i, j,
                    lastrow_scores, lastrow_strings, row_scores, row_strings,
                    match_score, ins_score, del_score, score, op >>

\* lines 101-102: the inner loop is over
RowEnd ==
    /\ pc = "cell"
    /\ i = Len(lstr1)
    /\ lastrow_scores' = row_scores
    /\ lastrow_strings' = row_strings
    /\ j' = j + 1
    /\ pc' = "row"
    /\ UNCHANGED << weights_file, penalty_scores, presult, lstr1, lstr2, i,
                    row_scores, row_strings, match_score, ins_score, del_score,
                    score, op, result >>

\* line 105 after at least one row
Return ==
    /\ pc = "row"
    /\ j = Len(lstr2)
    /\ row_strings # Unbound
    /\ result' = [NoResult EXCEPT !.kind = "ok",
                                  !.strings = row_strings[Len(lstr1) + 1],
                                  !.score = Round2(row_scores[Len(lstr1) + 1])]
    /\ pc' = "returned"
    /\ UNCHANGED << weights_file, penalty_scores, presult, lstr1, lstr2, i, j,
                    lastrow_scores, lastrow_strings, row_scores, row_strings,
                    match_score, ins_score, del_score, score, op >>

\* line 105 when the outer loop never ran: row_strings is not bound
ReturnUnbound ==
    /\ pc = "row"
    /\ j = Len(lstr2)
    /\ row_strings = Unbound
    /\ result' = [NoResult EXCEPT !.kind = "UnboundLocalError"]
    /\ pc' = "raised"
    /\ UNCHANGED << weights_file, penalty_scores, presult, lstr1, lstr2, i, j,
                    lastrow_scores, lastrow_strings, row_scores, row_strings,
                    match_score, ins_score, del_score, score, op >>

\* no align call is under way: its locals do not exist
AlignIdle ==
    /\ pc = "idle"
    /\ lstr1 = << >>
    /\ lstr2 = << >>
    /\ i = 0
    /\ j = 0
    /\ lastrow_scores = Unbound
    /\ lastrow_strings = Unbound
    /\ row_scores = Unbound
    /\ row_strings = Unbound
    /\ match_score = 0
    /\ ins_score = 0
    /\ del_score = 0
    /\ score = 0
    /\ op = "none"
    /\ result = NoResult

\* the caller has taken the result or caught the exception: the frame of the
\* call is gone and the process may call again (not after exit(1))
Finish ==
    /\ pc \in {"returned", "raised"}
    /\ pc' = "idle"
    /\ lstr1' = << >>
    /\ lstr2' = << >>
    /\ i' = 0
    /\ j' = 0
    /\ lastrow_scores' = Unbound
    /\ lastrow_strings' = Unbound
    /\ row_scores' = Unbound
    /\ row_strings' = Unbound
    /\ match_score' = 0
    /\ ins_score' = 0
    /\ del_score' = 0
    /\ score' = 0
    /\ op' = "none"
    /\ result' = NoResult
    /\ UNCHANGED << weights_file, penalty_scores, presult >>

-----------------------------------------------------------------------------
(* Specifications *)

\* dicts a completed _load_scores leaves: the gap penalty and some pairs
Tables ==
    UNION {UNION {{Put(t, GapKey, g) : t \in [D -> PenValues]} : g \in GapValues}
           : D \in SUBSET PairKeys}

Inputs == SeqsUpTo(Symbols, MaxLen)

\* a process whose penalty table has been loaded
Init ==
    /\ weights_file = ConsumedFile
    /\ penalty_scores \in Tables
    /\ presult = NoCall
    /\ AlignIdle

Next ==
    \/ \E s1 \in Inputs, s2 \in Inputs : Align(s1, s2)
    \/ RowBegin
    \/ CellMatch
    \/ CellInsert
    \/ CellDelete
    \/ CellMissing
    \/ RowEnd
    \/ Return
    \/ ReturnUnbound
    \/ Finish

Spec == Init /\ [][Next]_vars

\* a fresh process: nothing loaded yet
InitLoad ==
    /\ weights_file \in Files
    /\ penalty_scores = EmptyDict
    /\ presult = NoCall
    /\ AlignIdle

NextLoad == \E key \in CallKeys : PenaltyCall(key)

SpecLoad == InitLoad /\ [][NextLoad]_vars


-----------------------------------------------------------------------------
(* Properties of align, checked under Spec *)

Strip(s) == SelectSeq(s, LAMBDA x : x # "-")

Range(s) == {s[k] : k \in 1..Len(s)}

SetMin(S) == CHOOSE c \in S : \A d \in S : c <= d

gap_penalty == penalty_scores[GapKey]

len1 == Len(lstr1)
len2 == Len(lstr2)

\* the inner loop has just finished the cell of column i (1-based) of row j + 1
CellDone == pc = "cell" /\ i >= 1

\* the three candidate scores of the finished cell, from the two rows
DoneMatch == lastrow_scores[i] + penalty_scores[<<lstr1[i], lstr2[j + 1]>>]
DoneIns == lastrow_scores[i + 1] + gap_penalty
DoneDel == row_scores[i] + gap_penalty
DoneBest == SetMin({DoneMatch, DoneIns, DoneDel})

\* the last column of an aligned pair
LastColumn(st) == << st[1][Len(st[1])], st[2][Len(st[2])] >>

\* cost of one column of an alignment
ColumnCost(x, y) ==
    IF x = "-" \/ y = "-" THEN gap_penalty ELSE penalty_scores[<<x, y>>]

RECURSIVE ColumnSum(_, _, _)
\* cost of the first n columns of the aligned pair a1, a2
ColumnSum(a1, a2, n) ==
    IF n = 0 THEN 0 ELSE ColumnSum(a1, a2, n - 1) + ColumnCost(a1[n], a2[n])

RECURSIVE AlignmentCosts(_, _)
\* the total costs of all global alignments of lstr1[:ii] with lstr2[:jj]
AlignmentCosts(ii, jj) ==
    IF ii = 0 /\ jj = 0 THEN {0}
    ELSE (IF ii > 0 /\ jj > 0
          THEN {c + penalty_scores[<<lstr1[ii], lstr2[jj]>>] :
                    c \in AlignmentCosts(ii - 1, jj - 1)}
          ELSE {})
         \cup (IF jj > 0 THEN {c + gap_penalty : c \in AlignmentCosts(ii, jj - 1)}
               ELSE {})
         \cup (IF ii > 0 THEN {c + gap_penalty : c \in AlignmentCosts(ii - 1, jj)}
               ELSE {})

RECURSIVE TagScore(_, _)
\* score of cell (jj, ii) of the origin-tag matrix
TagScore(jj, ii) ==
    IF jj = 0 THEN ii * gap_penalty
    ELSE IF ii = 0 THEN jj * gap_penalty
    ELSE SetMin({TagScore(jj - 1, ii - 1) + penalty_scores[<<lstr1[ii], lstr2[jj]>>],
                 TagScore(jj - 1, ii) + gap_penalty,
                 TagScore(jj, ii - 1) + gap_penalty})

\* origin tag of cell (jj, ii): Match before Insert before Delete
TagOrigin(jj, ii) ==
    IF jj = 0 /\ ii = 0 THEN "None"
    ELSE IF jj = 0 THEN "Delete"
    ELSE IF ii = 0 THEN "Insert"
    ELSE IF TagScore(jj, ii)
            = TagScore(jj - 1, ii - 1) + penalty_scores[<<lstr1[ii], lstr2[jj]>>]
         THEN "Match"
    ELSE IF TagScore(jj, ii) = TagScore(jj - 1, ii) + gap_penalty THEN "Insert"
    ELSE "Delete"

RECURSIVE Backtrack(_, _)
\* the aligned pair read off the origin tags from cell (jj, ii) back to (0, 0)
Backtrack(jj, ii) ==
    IF TagOrigin(jj, ii) = "None" THEN << << >>, << >> >>
    ELSE IF TagOrigin(jj, ii) = "Match"
         THEN << Backtrack(jj - 1, ii - 1)[1] \o <<lstr1[ii]>>,
                 Backtrack(jj - 1, ii - 1)[2] \o <<lstr2[jj]>> >>
    ELSE IF TagOrigin(jj, ii) = "Insert"
         THEN << Backtrack(jj - 1, ii)[1] \o <<"-">>,
                 Backtrack(jj - 1, ii)[2] \o <<lstr2[jj]>> >>
    ELSE << Backtrack(jj, ii - 1)[1] \o <<lstr1[ii]>>,
            Backtrack(jj, ii - 1)[2] \o <<"-">> >>

\* C1: the two aligned sequences that align returns have equal length.
C1_EqualLength ==
    pc = "returned" => Len(result.strings[1]) = Len(result.strings[2])

\* C2: the returned score is, up to the final rounding, the sum over the
\* columns of the returned alignment of the pair penalty (two symbols) or the
\* gap penalty (a gap on either side).
C2_ScoreConsistent ==
    pc = "returned" =>
        /\ Len(result.strings[1]) = Len(result.strings[2])
        /\ row_scores[len1 + 1]
             = ColumnSum(result.strings[1], result.strings[2], Len(result.strings[1]))
        /\ result.score
             = Round2(ColumnSum(result.strings[1], result.strings[2],
                                Len(result.strings[1])))

\* C3: when align returns, removing the gaps from aligned1 gives seq1 and
\* removing the gaps from aligned2 gives seq2.
C3_RoundTrip ==
    pc = "returned" =>
        /\ Strip(result.strings[1]) = lstr1
        /\ Strip(result.strings[2]) = lstr2

\* a returned alignment of two 2-symbol sequences with gaps on both sides
C3_Witness ==
    /\ pc = "returned"
    /\ len1 >= 2
    /\ len2 >= 2
    /\ "-" \in Range(result.strings[1])
    /\ "-" \in Range(result.strings[2])

\* C4: a call with an empty sequence never ends in an error: it returns the
\* other sequence aligned against gaps with score len * gap_penalty (both
\* empty: two empty sequences and score 0).
C4_EmptyInputs ==
    (pc \in {"returned", "raised", "exited"} /\ (lstr1 = << >> \/ lstr2 = << >>)) =>
        /\ pc = "returned"
        /\ result.strings = IF lstr2 = << >> THEN <<lstr1, Gaps(len1)>>
                            ELSE <<Gaps(len2), lstr2>>
        /\ result.score = (len1 + len2) * gap_penalty

\* C5: every cell score is the minimum of its match, insert and delete scores,
\* and the score align returns is, before rounding, the minimum total cost
\* over all global alignments of seq1 with seq2.
C5_Optimal ==
    /\ CellDone => row_scores[i + 1] = DoneBest
    /\ pc = "returned" =>
           /\ row_scores[len1 + 1] = SetMin(AlignmentCosts(len1, len2))
           /\ result.score = Round2(SetMin(AlignmentCosts(len1, len2)))

\* a returned optimum that costs something and that the rounding changes
C5_Witness ==
    /\ pc = "returned"
    /\ len1 >= 2
    /\ len2 >= 2
    /\ Cardinality(AlignmentCosts(len1, len2)) >= 3
    /\ row_scores[len1 + 1] > 0
    /\ result.score # row_scores[len1 + 1]

\* C6: at every cell the operation is Match exactly when match_score is the
\* minimum, Insert exactly when match_score is above the minimum and ins_score
\* equals it, Delete exactly when del_score is strictly below both; the column
\* appended to the cell's alignment is the one of that operation.
C6_TieBreak ==
    CellDone =>
        /\ op \in {"Match", "Insert", "Delete"}
        /\ (op = "Match") <=> (DoneMatch = DoneBest)
        /\ (op = "Insert") <=> (DoneMatch > DoneBest /\ DoneIns = DoneBest)
        /\ (op = "Delete") <=> (DoneDel < DoneMatch /\ DoneDel < DoneIns)
        /\ LastColumn(row_strings[i + 1])
             = IF op = "Match" THEN <<lstr1[i], lstr2[j + 1]>>
               ELSE IF op = "Insert" THEN <<"-", lstr2[j + 1]>>
               ELSE <<lstr1[i], "-">>

\* a cell where the three scores tie
C6_Witness ==
    /\ CellDone
    /\ DoneMatch = DoneIns
    /\ DoneIns = DoneDel
    /\ op = "Match"

\* C7: a pair (seq1[i], seq2[j]) without entry ends the call with exit(1) and
\* the message naming that pair; no alignment comes back, every match score
\* uses the entry of the ordered pair itself, never a default or the entry of
\* the reversed pair.
C7_MissingPair ==
    /\ pc = "exited" =>
           /\ result.kind = "exit"
           /\ result.key = <<lstr1[i + 1], lstr2[j + 1]>>
           /\ result.key \notin DOMAIN penalty_scores
           /\ result.strings = NoResult.strings
    /\ pc = "returned" =>
           \A x \in Range(lstr1), y \in Range(lstr2) : <<x, y>> \in DOMAIN penalty_scores
    /\ CellDone =>
           /\ <<lstr1[i], lstr2[j + 1]>> \in DOMAIN penalty_scores
           /\ match_score = DoneMatch

\* the call ended on a pair whose reversed pair has an entry
C7_Witness ==
    /\ pc = "exited"
    /\ result.key[1] # result.key[2]
    /\ <<result.key[2], result.key[1]>> \in DOMAIN penalty_scores
    /\ i + j >= 1

\* C9: after an Insert the cell holds the whole alignment of cell (j-1, i)
\* extended by (Gap, seq2[j-1]), and the pair align returns is the pair read
\* off the origin-tag matrix by backtracking.
C9_InsertFromAbove ==
    /\ (CellDone /\ op = "Insert") =>
           row_strings[i + 1] = << lastrow_strings[i + 1][1] \o <<"-">>,
                                   lastrow_strings[i + 1][2] \o <<lstr2[j + 1]>> >>
    /\ pc = "returned" => result.strings = Backtrack(len2, len1)

-----------------------------------------------------------------------------
(* Properties of the penalty table, checked under SpecLoad *)

\* what _load_scores makes of the whole file, starting from the empty dict
FullLoad == LoadScores(EmptyDict, weights_file)

\* table line k is a pair line whose vector fits the weights after the first
PairLine(k) ==
    LET line == weights_file.rows[k] IN
    /\ Len(line) >= 3
    /\ line[1] # "GAP"
    /\ line[2] # "GAP"
    /\ Len(line) - 3 = Len(weights_file.weights) - 1

\* the pair a table line is about (none for a line of fewer than two fields)
LinePair(k) ==
    IF Len(weights_file.rows[k]) >= 2
    THEN <<weights_file.rows[k][1], weights_file.rows[k][2]>>
    ELSE << >>

RECURSIVE FeatureDot(_, _)
\* mismatch bit n of the line times feature weight n + 1, summed over 1..n
FeatureDot(line, n) ==
    IF n = 0 THEN 0
    ELSE FeatureDot(line, n - 1)
         + IntOf[line[3 + n]] * FloatOf[weights_file.weights[n + 1]]

\* C8: after a load, the penalty stored for the pair of a non-GAP line is the
\* dot product of the line's mismatch vector with the feature weights after
\* the first one (the gap weight).
C8_DotProduct ==
    (FullLoad.ok /\ penalty_scores = FullLoad.table) =>
        \A k \in 1..Len(weights_file.rows) :
            (/\ PairLine(k)
             /\ \A l \in (k + 1)..Len(weights_file.rows) :
                    LinePair(l) # LinePair(k))
            => penalty_scores[LinePair(k)]
                 = FeatureDot(weights_file.rows[k], Len(weights_file.rows[k]) - 3)

\* C10: no _penalty call is answered from a dict that a failed _load_scores
\* left behind: a call that reaches the lookup finds the dict of a complete
\* load; and a completely loaded dict never changes.
C10_NeverPartial ==
    /\ [](presult.kind \in {"value", "exit"} =>
             (FullLoad.ok /\ penalty_scores = FullLoad.table))
    /\ [][(FullLoad.ok /\ penalty_scores = FullLoad.table)
            => penalty_scores' = penalty_scores]_vars

=============================================================================
